---- MODULE Spec2Model ----
(***************************************************************************)
(* Model of src/src/App.tsx: the App component of the AviatorScript web    *)
(* playground.  The component state (code, output, isRunning, the two      *)
(* refs), the marker set held by the editor widget and the pending         *)
(* setTimeout callbacks are the variables; each event handler is one       *)
(* action.  The static analyzer, the execution engine and the editor       *)
(* widget are external: their results are drawn nondeterministically.      *)
(* JavaScript strings that the component builds or inspects are sequences  *)
(* of one-character strings, so that concatenation and prefix tests are    *)
(* computed; texts and diagnostic messages that the component only passes  *)
(* along are plain strings.                                                *)
(***************************************************************************)
EXTENDS Integers, Sequences, FiniteSets, TLC

VARIABLES code, output, isRunning, mounted, markers, timers,
          run, analysis, lastOp, threw

vars == <<code, output, isRunning, mounted, markers, timers,
          run, analysis, lastOp, threw>>

(* ------------------------------ bounds --------------------------------- *)

\* longest diagnostic list the analyzer returns
MaxDiags == 2

\* most context-function calls the engine makes in one run
MaxEmit == 2

\* most setTimeout callbacks pending at once
MaxTimers == 2

\* largest severity code the analyzer reports (the smallest is -1)
MaxSeverity == 3

(* ------------------------- JavaScript values --------------------------- *)

Str(s) == [t |-> "str", s |-> s]

Num(n) == [t |-> "num", n |-> n]

NullV == [t |-> "null"]

UndefV == [t |-> "undef"]

Err(m) == [t |-> "obj", message |-> m]

Digit(d) == <<"0", "1", "2", "3", "4", "5", "6", "7", "8", "9">>[d + 1]

RECURSIVE NatStr(_)
NatStr(n) == IF n < 10 THEN <<Digit(n)>> ELSE NatStr(n \div 10) \o <<Digit(n % 10)>>

NumStr(n) == IF n < 0 THEN <<"-">> \o NatStr(0 - n) ELSE NatStr(n)

\* String(msg) and the conversion inside a template literal
ToStr(v) ==
  CASE v.t = "str" -> v.s
    [] v.t = "num" -> NumStr(v.n)
    [] v.t = "null" -> <<"n", "u", "l", "l">>
    [] v.t = "undef" -> <<"u", "n", "d", "e", "f", "i", "n", "e", "d">>

(* ------------------------------ inputs --------------------------------- *)

DefaultCode == "## Welcome to AviatorScript Web Runtime"

Texts == {DefaultCode, "p(1 / 0);"}

\* the argument of onChange: string | undefined
EditValues == {[defined |-> FALSE]} \cup {[defined |-> TRUE, text |-> t] : t \in Texts}

Diag(l, m, s) == [line |-> l, message |-> m, severity |-> s]

\* diagnostics of the analyzer when runs and edits interleave
AnalyzerDiagnostics ==
  { Diag(3, "unexpected token", 1),
    Diag(1, "unused variable", 2) }

SeverityCodes == (0 - 1)..MaxSeverity

\* diagnostics of every severity code, each on a line of its own
WideDiagnostics ==
  { Diag(s + 2, IF s % 2 = 1 THEN "unexpected token" ELSE "unused variable", s) :
      s \in SeverityCodes }

RECURSIVE SeqsUpTo(_, _)
SeqsUpTo(n, S) ==
  IF n = 0 THEN {<<>>}
  ELSE LET shorter == SeqsUpTo(n - 1, S)
       IN  shorter \cup {Append(q, e) : q \in {r \in shorter : Len(r) = n - 1}, e \in S}

\* what one call of analyzeCode meets in the analyzer and the widget
OraclesOver(diagnostics, failures) ==
  {[outcome |-> o, diags |-> <<>>] : o \in failures}
  \cup {[outcome |-> "ok", diags |-> ds] : ds \in SeqsUpTo(MaxDiags, diagnostics)}

\* when runs and edits interleave: a throw before and a throw after the
\* translation of the diagnostics
AnalyzerOracles == OraclesOver(AnalyzerDiagnostics, {"analyzeThrows", "applyThrows"})

WideOracles ==
  OraclesOver(WideDiagnostics, {"ctorThrows", "analyzeThrows", "mapThrows", "applyThrows"})

XEq5 == <<"x", " ", "=", " ", "5">>

DivByZero == <<"d", "i", "v", "i", "s", "i", "o", "n", " ", "b", "y", " ", "z", "e", "r", "o">>

\* calls the engine makes on the context it was given
EngineCalls ==
  { [fn |-> "p", msg |-> Str(XEq5)],
    [fn |-> "println", msg |-> Num(3)],
    [fn |-> "print", msg |-> NullV] }

EngineResults == {Num(-12), NullV}

\* values the engine (or its constructor) throws
EngineThrown == {Err(Str(DivByZero)), NullV}

EngineOracles ==
  {[outcome |-> "ctorThrows", calls |-> <<>>, value |-> e] : e \in EngineThrown}
  \cup {[outcome |-> "returns", calls |-> cs, value |-> v] :
          cs \in SeqsUpTo(MaxEmit, EngineCalls), v \in EngineResults}
  \cup {[outcome |-> "throws", calls |-> cs, value |-> e] :
          cs \in SeqsUpTo(MaxEmit, EngineCalls), e \in EngineThrown}

\* dirty: the output held lines of an earlier run when this run was requested
NoRun == [outcome |-> "none", calls |-> <<>>, value |-> UndefV, text |-> "", dirty |-> FALSE]

\* text: the text given to the analyzer; okDiags: the diagnostics of the most
\* recent analysis that succeeded
NoAnalysis == [outcome |-> "none", diags |-> <<>>, text |-> "", okDiags |-> <<>>]

\* the record of one call of analyzeCode on the given text
Analysed(oracle, text, before) ==
  [ outcome |-> oracle.outcome,
    diags |-> oracle.diags,
    text |-> text,
    okDiags |-> IF oracle.outcome = "ok" THEN oracle.diags ELSE before.okDiags ]

\* the handler that ran last, with the text it was given
Op(name, text) == [op |-> name, text |-> text]

(* --------------------------- analyzeCode ------------------------------- *)

MarkerSeverity_OnlyTwoWarns(severity) == IF severity = 2 THEN "Warning" ELSE "Error"

\* d.severity === 1 ? MarkerSeverity.Error : MarkerSeverity.Warning
MarkerSeverity(severity) == IF severity = 1 THEN "Error" ELSE "Warning"

EndColumn == 1000

\* the object built for one diagnostic by the callback of diagnostics.map
ToMarker(d) ==
  [ startLineNumber |-> d.line,
    startColumn |-> 1,
    endLineNumber |-> d.line,
    endColumn |-> EndColumn,
    message |-> d.message,
    severity |-> MarkerSeverity(d.severity) ]

\* diagnostics.map(d => ...)
MapMarkers(diagnostics) == [i \in 1..Len(diagnostics) |-> ToMarker(diagnostics[i])]

SetModelMarkers_Append(prev, new) == prev \o new

\* monaco.editor.setModelMarkers(model, 'aviator', markers): the owner's
\* markers are replaced by the given ones
SetModelMarkers(prev, new) == new

\* the try block of analyzeCode: the marker set it leaves and whether it threw
AnalyzeTry(oracle, prev) ==
  IF oracle.outcome = "ok"
  THEN [markers |-> SetModelMarkers(prev, MapMarkers(oracle.diags)), thrown |-> FALSE]
  ELSE [markers |-> prev, thrown |-> TRUE]

AnalyzeCode_NoCatch(oracle, prev) ==
  LET r == AnalyzeTry(oracle, prev)
  IN  [markers |-> r.markers, escaped |-> r.thrown]

AnalyzeCode_ClearOnFailure(oracle, prev) ==
  LET r == AnalyzeTry(oracle, prev)
  IN  [markers |-> IF r.thrown THEN <<>> ELSE r.markers, escaped |-> FALSE]

ConsoleError_ToOutput(sink, oracle) ==
  IF oracle.outcome = "ok" THEN sink
  ELSE Append(sink, <<"E", "r", "r", "o", "r", ":", " ", "A", "n", "a", "l", "y", "s", "i", "s">>)

\* console.error("Analysis failed", e): the failure goes to the console, the
\* output state is not written
ConsoleError(sink, oracle) == sink

\* analyzeCode: the catch clause logs and swallows whatever the try block threw
AnalyzeCode(oracle, prev) ==
  LET r == AnalyzeTry(oracle, prev)
  IN  [markers |-> r.markers, escaped |-> FALSE]

(* ------------------------------ runCode -------------------------------- *)

\* context.print / context.println / context.p: currentOutput.push(String(msg))
ContextCall(fn, currentOutput, msg) ==
  CASE fn = "print" -> Append(currentOutput, ToStr(msg))
    [] fn = "println" -> Append(currentOutput, ToStr(msg))
    [] fn = "p" -> Append(currentOutput, ToStr(msg))

\* currentOutput after the engine made the given calls, starting from []
RECURSIVE CapturedOutput(_)
CapturedOutput(calls) ==
  IF calls = <<>> THEN <<>>
  ELSE LET n == Len(calls)
       IN  ContextCall(calls[n].fn, CapturedOutput(SubSeq(calls, 1, n - 1)), calls[n].msg)

\* `\nResult: ${result}`
ResultLine(result) == <<"\n", "R", "e", "s", "u", "l", "t", ":", " ">> \o ToStr(result)

\* `\nError: ${e.message}`
ErrorLine(e) == <<"\n", "E", "r", "r", "o", "r", ":", " ">> \o ToStr(e.message)

OnSuccess_ResultFirst(currentOutput, result) == <<ResultLine(result)>> \o currentOutput

\* setOutput([...currentOutput, `\nResult: ${result}`])
OnSuccess(currentOutput, result) == currentOutput \o <<ResultLine(result)>>

\* setOutput(prev => [...prev, `\nError: ${e.message}`])
OnFailure(prev, e) == prev \o <<ErrorLine(e)>>

\* try / catch of the setTimeout callback: the output state it leaves and
\* whether an exception leaves the callback (reading e.message of a thrown
\* null throws inside the catch clause)
TimeoutCallback(prev, oracle) ==
  IF oracle.outcome = "returns"
  THEN [output |-> OnSuccess(CapturedOutput(oracle.calls), oracle.value), escaped |-> FALSE]
  ELSE IF oracle.value.t = "obj"
       THEN [output |-> OnFailure(prev, oracle.value), escaped |-> FALSE]
       ELSE [output |-> prev, escaped |-> TRUE]

FinallyIsRunning_OnlyOnSuccess(outcome) == outcome # "returns"

\* finally { setIsRunning(false) }
FinallyIsRunning(outcome) == FALSE

StartedIsRunning_Forgotten(prev) == prev

\* setIsRunning(true) in runCode
StartedIsRunning(prev) == TRUE

SetTimeout_NotQueued(queue, text) == queue

\* setTimeout(() => {...}, 10): the callback, with the code of its closure,
\* joins the pending callbacks
SetTimeout(queue, text) == Append(queue, text)

ExecutedText_Current(captured, current) == current

\* aviator.execute(code, context): code is the state the closure of runCode
\* captured, not the state at the time the callback runs
ExecutedText(captured, current) == captured

ClearedOutput_Keep(prev) == prev

\* setOutput([]) in runCode
ClearedOutput(prev) == <<>>

RunButtonEnabled_Always(running) == TRUE

\* <button onClick={runCode} disabled={isRunning}>
RunButtonEnabled(running) == ~running

(* ----------------------------- rendering ------------------------------- *)

\* line.startsWith(prefix)
StartsWith(line, prefix) ==
  /\ Len(line) >= Len(prefix)
  /\ SubSeq(line, 1, Len(prefix)) = prefix

\* line.startsWith('Error:')
IsErrorLine(line) == StartsWith(line, <<"E", "r", "r", "o", "r", ":">>)

\* line.startsWith('\nResult:')
IsResultLine(line) == StartsWith(line, <<"\n", "R", "e", "s", "u", "l", "t", ":">>)

(* ------------------------------ actions -------------------------------- *)

Init ==
  /\ code = DefaultCode
  /\ output = <<>>
  /\ isRunning = FALSE
  /\ mounted = FALSE
  /\ markers = <<>>
  /\ timers = <<>>
  /\ run = NoRun
  /\ analysis = NoAnalysis
  /\ lastOp = Op("init", "")
  /\ threw = FALSE

\* onMount: store the refs, register the language, analyse the document
HandleEditorDidMount(oracles) ==
  /\ ~mounted
  /\ \E oracle \in oracles :
       LET r == AnalyzeCode(oracle, markers)
       IN  /\ markers' = r.markers
           /\ threw' = r.escaped
           /\ output' = ConsoleError(output, oracle)
           /\ analysis' = Analysed(oracle, code, analysis)
  /\ mounted' = TRUE
  /\ lastOp' = Op("mount", code)
  /\ UNCHANGED <<code, isRunning, timers, run>>

\* onChange
HandleEditorChange(value, oracles) ==
  /\ IF value.defined
     THEN /\ code' = value.text
          /\ IF mounted
             THEN \E oracle \in oracles :
                    LET r == AnalyzeCode(oracle, markers)
                    IN  /\ markers' = r.markers
                        /\ threw' = r.escaped
                        /\ output' = ConsoleError(output, oracle)
                        /\ analysis' = Analysed(oracle, value.text, analysis)
             ELSE /\ threw' = FALSE
                  /\ UNCHANGED <<markers, analysis, output>>
          /\ lastOp' = Op("edit", value.text)
     ELSE UNCHANGED <<code, markers, analysis, output, threw, lastOp>>
  /\ UNCHANGED <<isRunning, mounted, timers, run>>

\* a click on the Run button: runCode up to and including setTimeout
RunCode ==
  /\ RunButtonEnabled(isRunning)
  /\ Len(timers) < MaxTimers
  /\ isRunning' = StartedIsRunning(isRunning)
  /\ output' = ClearedOutput(output)
  /\ timers' = SetTimeout(timers, code)
  /\ run' = [NoRun EXCEPT !.dirty = (output # <<>>)]
  /\ lastOp' = Op("run", code)
  /\ threw' = FALSE
  /\ UNCHANGED <<code, mounted, markers, analysis>>

\* the oldest pending setTimeout callback runs to its end
TimerFire ==
  /\ timers # <<>>
  /\ \E oracle \in EngineOracles :
       LET r == TimeoutCallback(output, oracle)
       IN  /\ output' = r.output
           /\ threw' = r.escaped
           /\ isRunning' = FinallyIsRunning(oracle.outcome)
           /\ run' = [outcome |-> oracle.outcome, calls |-> oracle.calls,
                      value |-> oracle.value,
                      text |-> ExecutedText(Head(timers), code),
                      dirty |-> run.dirty]
  /\ timers' = Tail(timers)
  /\ lastOp' = Op("timer", Head(timers))
  /\ UNCHANGED <<code, mounted, markers, analysis>>

Next ==
  \/ HandleEditorDidMount(AnalyzerOracles)
  \/ \E value \in EditValues : HandleEditorChange(value, AnalyzerOracles)
  \/ RunCode
  \/ TimerFire

Spec == Init /\ [][Next]_vars

\* the browser runs a pending timeout callback
FairSpec == Spec /\ WF_vars(TimerFire)

\* the editor alone, over diagnostics of every severity code
AnalysisNext ==
  \/ HandleEditorDidMount(WideOracles)
  \/ \E value \in EditValues : HandleEditorChange(value, WideOracles)

AnalysisSpec == Init /\ [][AnalysisNext]_vars

(* ------------------------------ claims --------------------------------- *)

RunFailed == run.outcome \in {"throws", "ctorThrows"}

\* the run failed with an error object whose message is a string
RunFailedWithMessage ==
  /\ RunFailed
  /\ run.value.t = "obj"
  /\ run.value.message.t = "str"

\* the lines the engine emitted through the context, as strings
EmittedLines == [i \in 1..Len(run.calls) |-> ToStr(run.calls[i].msg)]

AnalysisStep == lastOp.op \in {"mount", "edit"}

\* C1: every run returns the run state to Idle.  Right after the deferred
\* callback has finished, whatever the engine or its constructor did, the run
\* state is Idle; and, the scheduler firing pending callbacks, Running is
\* always eventually followed by Idle.
C1_RunReturnsToIdle ==
  /\ [](lastOp.op = "timer" => ~isRunning)
  /\ (isRunning ~> ~isRunning)

C1_Witness ==
  /\ lastOp.op = "timer"
  /\ run.outcome = "ctorThrows"
  /\ threw
  /\ ~isRunning

\* C2: after a run whose engine call emitted L1..Ln through print, println
\* and p and returned V, the output is exactly L1..Ln followed by the line
\* "\nResult: " + String(V).
C2_SuccessOutput ==
  run.outcome = "returns" =>
    /\ Len(output) = Len(run.calls) + 1
    /\ \A i \in 1..Len(run.calls) : output[i] = ToStr(run.calls[i].msg)
    /\ output[Len(output)] =
         <<"\n", "R", "e", "s", "u", "l", "t", ":", " ">> \o ToStr(run.value)

C2_Witness ==
  /\ run.outcome = "returns"
  /\ Len(run.calls) = 2
  /\ run.calls[1].fn # run.calls[2].fn
  /\ run.calls[1].msg # run.calls[2].msg
  /\ Len(output) = 3

\* C3: after a run whose engine call failed with message M, the output ends
\* with exactly one line equal to "Error: " + M, without a leading newline,
\* and holds no result line.
C3_ErrorLineNoPrefix ==
  RunFailedWithMessage =>
    LET line == <<"E", "r", "r", "o", "r", ":", " ">> \o run.value.message.s
    IN  /\ output # <<>>
        /\ output[Len(output)] = line
        /\ Cardinality({i \in 1..Len(output) : output[i] = line}) = 1
        /\ \A i \in 1..Len(output) : ~IsResultLine(output[i])

\* C4: after a run whose engine call emitted L1..Ln and then failed, the
\* output is L1..Ln, in order, followed by one error line.
C4_PartialOutputKept ==
  (run.outcome = "throws" /\ run.value.t = "obj") =>
    /\ Len(output) = Len(run.calls) + 1
    /\ \A i \in 1..Len(run.calls) : output[i] = EmittedLines[i]

\* C5: at most one run is requested and not yet completed, and no step taken
\* while the state is Running adds a pending run.
C5_AtMostOneRun ==
  /\ [](Len(timers) <= 1)
  /\ [][isRunning => Len(timers') <= Len(timers)]_vars

C5_Witness ==
  /\ isRunning
  /\ Len(timers) = 1
  /\ lastOp.op = "edit"

\* C6: no failure leaves analyzeCode, whichever of its calls threw, and the
\* edit that triggered the analysis has updated the stored document.
C6_AnalyzeNeverThrows ==
  /\ AnalysisStep => ~threw
  /\ lastOp.op = "edit" => code = lastOp.text

C6_Witness ==
  /\ lastOp.op = "edit"
  /\ analysis.outcome = "applyThrows"
  /\ code = lastOp.text
  /\ code # DefaultCode
  /\ ~threw

\* C7: a step in which the analyzer call fails leaves the marker set as it
\* was before the call.
C7_MarkersKeptOnFailure ==
  [][(AnalysisStep' /\ analysis'.outcome = "analyzeThrows") => markers' = markers]_vars

C7_Witness ==
  /\ AnalysisStep
  /\ analysis.outcome = "analyzeThrows"
  /\ markers # <<>>

\* C8: a marker's severity is Error when the diagnostic's severity code is 1
\* and Warning for every other code; no marker has a third severity.
C8_SeverityMapping ==
  /\ \A i \in 1..Len(markers) : markers[i].severity \in {"Error", "Warning"}
  /\ analysis.outcome = "ok" =>
       /\ Len(markers) = Len(analysis.diags)
       /\ \A i \in 1..Len(markers) :
            (markers[i].severity = "Error") <=> (analysis.diags[i].severity = 1)

C8_Witness ==
  /\ analysis.outcome = "ok"
  /\ Len(markers) = 2
  /\ analysis.diags[1].severity \in {0 - 1, 0, MaxSeverity}
  /\ markers[1].severity = "Warning"
  /\ analysis.diags[2].severity = 1
  /\ markers[2].severity = "Error"

\* C9: after a successful analysis the marker set has one marker per
\* diagnostic, in the same order, on the diagnostic's line from column 1 to
\* the fixed end column, with the diagnostic's message, and nothing else.
C9_MarkersReplaced ==
  analysis.outcome = "ok" =>
    /\ Len(markers) = Len(analysis.diags)
    /\ \A i \in 1..Len(markers) :
         /\ markers[i].startLineNumber = analysis.diags[i].line
         /\ markers[i].endLineNumber = analysis.diags[i].line
         /\ markers[i].startColumn = 1
         /\ markers[i].endColumn = EndColumn
         /\ markers[i].message = analysis.diags[i].message

C9_Witness ==
  /\ lastOp.op = "edit"
  /\ analysis.outcome = "ok"
  /\ Len(markers) = 2
  /\ analysis.diags[1].line # analysis.diags[2].line
  /\ analysis.diags[1].message # analysis.diags[2].message

\* C10: from the acceptance of a run request until its deferred callback
\* runs, the output is empty.
C10_OutputEmptyWhilePending ==
  timers # <<>> => output = <<>>

C10_Witness ==
  /\ timers # <<>>
  /\ isRunning
  /\ output = <<>>
  /\ run.dirty
  /\ lastOp.op = "edit"

\* C11: the run state changes only from Idle to Running in a run request and
\* from Running to Idle in a completion; a run request is taken only from
\* Idle, a completion only from Running, and mount and edits leave it alone.
C11_RunStateTransitions ==
  [][ /\ lastOp'.op = "run" => (~isRunning /\ isRunning')
      /\ lastOp'.op = "timer" => (isRunning /\ ~isRunning')
      /\ lastOp'.op \notin {"run", "timer"} => isRunning' = isRunning ]_vars

C11_Witness ==
  /\ lastOp.op = "timer"
  /\ run.outcome = "throws"
  /\ run.dirty
  /\ ~isRunning

\* C12: every step that changes the output is taken while the run state is
\* Running, or is the step that sets it to Running; the output never changes
\* in a step that starts and ends Idle.
C12_OutputChangesOnlyInRun ==
  [][output' # output => (isRunning \/ isRunning')]_vars

C12_Witness ==
  /\ lastOp.op = "run"
  /\ run.dirty
  /\ output = <<>>
  /\ isRunning

\* C13: the engine is not invoked in the step of the run request.  The
\* request step leaves the state Running, the output empty, the engine not
\* invoked and one more callback pending; the step that invokes the engine
\* starts from such a state.
C13_EngineDeferred ==
  [][ /\ lastOp'.op = "run" =>
           /\ isRunning'
           /\ output' = <<>>
           /\ run'.outcome = "none"
           /\ Len(timers') = Len(timers) + 1
      /\ run'.outcome # "none" /\ run' # run =>
           /\ lastOp'.op = "timer"
           /\ isRunning
           /\ output = <<>>
           /\ run.outcome = "none"
           /\ Len(timers') = Len(timers) - 1 ]_vars

C13_Witness ==
  /\ lastOp.op = "run"
  /\ isRunning
  /\ output = <<>>
  /\ run.outcome = "none"
  /\ Len(timers) = 1

\* C14: a step of mount or edit, whether its analysis succeeds or fails,
\* leaves the run state and the output unchanged; a run request or a
\* completion, successful or failed, leaves the marker set and the document
\* text unchanged.
C14_ChannelsIndependent ==
  [][ /\ lastOp'.op \in {"mount", "edit"} =>
           (isRunning' = isRunning /\ output' = output)
      /\ lastOp'.op \in {"run", "timer"} =>
           (markers' = markers /\ code' = code) ]_vars

C14_Witness ==
  /\ lastOp.op = "edit"
  /\ analysis.outcome = "analyzeThrows"
  /\ run.outcome = "returns"
  /\ Len(output) = 3
  /\ markers # <<>>

\* C15: the last line of the output of a failed run starts with "Error:",
\* the last line of the output of a successful run starts with a newline and
\* "Result:", and no line starts with both.
C15_LinesClassified ==
  /\ (RunFailed /\ run.value.t = "obj") =>
       (output # <<>> /\ IsErrorLine(output[Len(output)]))
  /\ run.outcome = "returns" =>
       (output # <<>> /\ IsResultLine(output[Len(output)]))
  /\ \A i \in 1..Len(output) : ~(IsErrorLine(output[i]) /\ IsResultLine(output[i]))

\* the marker the claims expect for a diagnostic
ExpectedMarker(d) ==
  [ startLineNumber |-> d.line,
    startColumn |-> 1,
    endLineNumber |-> d.line,
    endColumn |-> 1000,
    message |-> d.message,
    severity |-> IF d.severity = 1 THEN "Error" ELSE "Warning" ]

ExpectedMarkers(ds) == [i \in 1..Len(ds) |-> ExpectedMarker(ds[i])]

\* C16: after mount, every text change is analysed once, on its own text,
\* before the next event; so the text last analysed is the document, the
\* marker set is the translation of the diagnostics of the most recent
\* analysis that succeeded, and that is the analysis of the document whenever
\* the latest analysis succeeded.
C16_MarkersFollowAnalysis ==
  /\ [](mounted =>
          /\ analysis.outcome # "none"
          /\ analysis.text = code
          /\ markers = ExpectedMarkers(analysis.okDiags)
          /\ analysis.outcome = "ok" => markers = ExpectedMarkers(analysis.diags))
  /\ [][(mounted /\ lastOp'.op = "edit") =>
          (analysis'.text = lastOp'.text /\ code' = lastOp'.text)]_vars
  /\ [][analysis' # analysis => lastOp'.op \in {"mount", "edit"}]_vars

C16_Witness ==
  /\ mounted
  /\ lastOp.op = "edit"
  /\ analysis.outcome = "applyThrows"
  /\ Len(analysis.okDiags) = 2
  /\ markers = ExpectedMarkers(analysis.okDiags)
  /\ code # DefaultCode

\* the result or error line a completed run appended, if any
FinalLines ==
  IF run.outcome = "returns"
  THEN {<<"\n", "R", "e", "s", "u", "l", "t", ":", " ">> \o ToStr(run.value)}
  ELSE IF RunFailed /\ run.value.t = "obj"
       THEN {<<"\n", "E", "r", "r", "o", "r", ":", " ">> \o ToStr(run.value.message)}
       ELSE {}

\* C17: the output a completed run leaves holds only lines that run's engine
\* call emitted and that run's one result or error line, whatever earlier
\* runs wrote.
C17_RunsIsolated ==
  run.outcome # "none" =>
    /\ Len(output) <= Len(run.calls) + 1
    /\ \A i \in 1..Len(output) :
         output[i] \in {EmittedLines[j] : j \in 1..Len(run.calls)} \cup FinalLines
    /\ Cardinality({i \in 1..Len(output) : output[i] \in FinalLines}) <= 1

C17_Witness ==
  /\ run.outcome = "throws"
  /\ run.value.t = "obj"
  /\ run.dirty
  /\ Len(run.calls) = 2
  /\ Len(output) = 1

\* C18: the engine executes the document text of the moment the run was
\* requested: the request queues the text of that moment, mount and edits
\* leave the queued text alone, and the callback executes the queued text.
C18_RunsRequestedText ==
  [][ /\ lastOp'.op = "run" => timers' = Append(timers, code)
      /\ lastOp'.op \in {"mount", "edit"} => timers' = timers
      /\ lastOp'.op = "timer" => (timers # <<>> /\ run'.text = Head(timers)) ]_vars

C18_Witness ==
  /\ lastOp.op = "timer"
  /\ run.outcome = "returns"
  /\ run.text # code
  /\ analysis.text = code
  /\ markers # <<>>

====
